---- MODULE Spec2Model ----
(***************************************************************************)
(* A model of itk::SQLQuery (Source/itkSQLQuery.h, Source/itkSQLQuery.cxx), *)
(* the abstract superclass of the SQL query classes: the query text and    *)
(* its setter, the active flag, the default transaction methods, the typed *)
(* BindParameter overloads, the vtkVariant dispatch and EscapeString.      *)
(*                                                                         *)
(* A string is a sequence of one-character strings.  A call is one step;   *)
(* what it returned, the diagnostic it reported through itkErrorMacro and  *)
(* the typed BindParameter overloads it invoked are kept in the variables  *)
(* lastOp, lastArg, ret, msg and calls.                                   *)
(***************************************************************************)
EXTENDS Integers, Sequences, FiniteSets, TLC

\* ------------------------------------------------------------------ bounds
MaxLen == 1
MaxMTime == 2
MaxRows == 1
MaxIndex == 1

Quote == "'"
Alphabet == {"a", Quote}
Strings == UNION {[1..k -> Alphabet] : k \in 0..MaxLen}

VARIABLES
  m_Query,      \* std::string m_Query
  m_Active,     \* bool m_Active
  MTime,        \* the modification time that Modified() advances
  rowsLeft,     \* rows the driver's cursor has still to deliver
  build,        \* which 64-bit integer type the build enables
  lastOp,       \* the member function called last
  lastArg,      \* its arguments
  ret,          \* what it returned: a boolean or a string
  msg,          \* the diagnostic it reported, "" when none
  calls         \* the typed BindParameter overloads it invoked, in order

vars == <<m_Query, m_Active, MTime, rowsLeft, build,
          lastOp, lastArg, ret, msg, calls>>

object == <<m_Query, m_Active, MTime, rowsLeft>>

NoArg == [op |-> "none"]

\* --------------------------------------------------------- the constructor
\* The constructor without m_Active = false: the flag starts as set.
CtorActiveUnset == TRUE

CtorActive == FALSE

\* ------------------------------------------------------------ diagnostics
NoMessage == ""
MsgNoBoundParameters == "This database driver does not support bound parameters."
MsgVariantObject == "Variants of type VTK_OBJECT cannot be inserted into a database."
\* The default arm reporting with the line of the typed overloads.
MsgVariantPasted == "This database driver does not support bound parameters."

MsgVariantUnsupported == "Variants of type <n> are not currently supported by BindParameter."

Init ==
  /\ m_Query = <<>>
  /\ m_Active = CtorActive
  /\ MTime = 0
  /\ rowsLeft = 0
  /\ build \in {"LONG_LONG", "__INT64"}
  /\ lastOp = "SQLQuery"
  /\ lastArg = NoArg
  /\ ret = TRUE
  /\ msg = NoMessage
  /\ calls = <<>>

\* ------------------------------------------------------- SQLQuery::SetQuery
\* The character codes std::string::compare orders by.
CharCode(c) == IF c = Quote THEN 39 ELSE 97

\* std::string::compare: 0 for equal strings, negative or positive otherwise.
RECURSIVE Compare(_, _)
Compare(a, b) ==
  IF a = <<>> /\ b = <<>> THEN 0
  ELSE IF a = <<>> THEN -1
  ELSE IF b = <<>> THEN 1
  ELSE IF CharCode(Head(a)) < CharCode(Head(b)) THEN -1
  ELSE IF CharCode(Head(a)) > CharCode(Head(b)) THEN 1
  ELSE Compare(Tail(a), Tail(b))

\* The C++ operator ! on an int, as the int it compares with 0 afterwards.
LogicalNot(n) == IF n = 0 THEN 1 ELSE 0

\* if ( m_Query.empty() && queryString.empty() )
BothEmpty(old, queryString) == old = <<>> /\ queryString = <<>>

\* if ( !m_Query.empty() && !queryString.empty() &&
\*    ( !m_Query.compare( queryString ) == 0 ) )
IsntChanging(old, queryString) ==
  /\ old # <<>>
  /\ queryString # <<>>
  /\ LogicalNot(Compare(old, queryString)) = 0

\* m_Query = cp1 copies the buffer that new char[n] has just returned, before
\* the do-while loop fills it from queryString: the stored text is whatever
\* the uninitialised buffer holds, the text of queryString included.
CopiedText(queryString) == Strings

SetQuery ==
  \E queryString \in Strings :
    /\ lastOp' = "SetQuery"
    /\ lastArg' = [op |-> "SetQuery", text |-> queryString]
    /\ ret' = TRUE
    /\ UNCHANGED <<m_Active, rowsLeft, build>>
    /\ msg' = NoMessage
    /\ calls' = <<>>
    /\ IF BothEmpty(m_Query, queryString) \/ IsntChanging(m_Query, queryString)
       THEN UNCHANGED <<m_Query, MTime>>
       ELSE /\ MTime < MaxMTime
            /\ IF queryString # <<>>
               THEN m_Query' \in CopiedText(queryString)
               ELSE m_Query' = <<>>
            /\ MTime' = MTime + 1

\* ------------------------------------------------------- SQLQuery::GetQuery
GetQuery ==
  /\ lastOp' = "GetQuery"
  /\ lastArg' = NoArg
  /\ ret' = m_Query
  /\ msg' = NoMessage
  /\ calls' = <<>>
  /\ UNCHANGED <<m_Query, m_Active, MTime, rowsLeft, build>>

\* ------------------------------------------------------- SQLQuery::IsActive
IsActive ==
  /\ lastOp' = "IsActive"
  /\ lastArg' = NoArg
  /\ ret' = m_Active
  /\ msg' = NoMessage
  /\ calls' = <<>>
  /\ UNCHANGED <<m_Query, m_Active, MTime, rowsLeft, build>>

\* ---------------------------------------- the driver's Execute and NextRow
\* Execute is pure virtual in SQLQuery; a driver's Execute makes the query
\* active when the statement succeeds and inactive when it fails.
Execute ==
  \E ok \in BOOLEAN, rows \in 0..MaxRows :
    /\ lastOp' = "Execute"
    /\ lastArg' = NoArg
    /\ ret' = ok
    /\ m_Active' = ok
    /\ rowsLeft' = IF ok THEN rows ELSE 0
    /\ msg' = NoMessage
    /\ calls' = <<>>
    /\ UNCHANGED <<m_Query, MTime, build>>

NextRow ==
  /\ m_Active
  /\ lastOp' = "NextRow"
  /\ lastArg' = NoArg
  /\ ret' = (rowsLeft > 0)
  /\ rowsLeft' = IF rowsLeft > 0 THEN rowsLeft - 1 ELSE 0
  /\ msg' = NoMessage
  /\ calls' = <<>>
  /\ UNCHANGED <<m_Query, m_Active, MTime, build>>

\* ------------------------------------------------------------ transactions
\* A commit that reports failure where there is no transaction.
CommitTransactionFails == FALSE

\* virtual bool BeginTransaction() { return true; } and its two siblings.
BeginTransactionResult == TRUE

CommitTransactionResult == TRUE

RollbackTransactionResult == TRUE

TransactionCall(op, result) ==
  /\ lastOp' = op
  /\ lastArg' = NoArg
  /\ ret' = result
  /\ msg' = NoMessage
  /\ calls' = <<>>
  /\ UNCHANGED <<m_Query, m_Active, MTime, rowsLeft, build>>

BeginTransaction == TransactionCall("BeginTransaction", BeginTransactionResult)

CommitTransaction == TransactionCall("CommitTransaction", CommitTransactionResult)

RollbackTransaction == TransactionCall("RollbackTransaction", RollbackTransactionResult)

\* --------------------------------------------------- SQLQuery::EscapeString
\* The loop without the doubling of single quotes.
EscapeLoopCopies(s) == s

\* The loop over s: a single quote is emitted twice, any other character once.
RECURSIVE EscapeLoop(_)
EscapeLoop(s) ==
  IF s = <<>> THEN <<>>
  ELSE (IF Head(s) = Quote THEN <<Quote>> ELSE <<>>) \o <<Head(s)>> \o EscapeLoop(Tail(s))

EscapeString(s, addSurroundingQuotes) ==
  (IF addSurroundingQuotes THEN <<Quote>> ELSE <<>>)
    \o EscapeLoop(s)
    \o (IF addSurroundingQuotes THEN <<Quote>> ELSE <<>>)

\* The second overload copies src and calls the first.
EscapeStringWrapper(src, addSurroundingQuotes) ==
  LET sstr == src
      dstr == EscapeString(sstr, addSurroundingQuotes)
  IN dstr

OBrien == <<"O", Quote, "B", "r", "i", "e", "n">>
Abc == <<"a", "b", "c">>
EscapeInputs == Strings \cup {OBrien, Abc, <<Quote, Quote>>, <<"a", Quote, Quote>>}

EscapeStringCall ==
  \E s \in EscapeInputs, addSurroundingQuotes \in BOOLEAN :
    /\ lastOp' = "EscapeString"
    /\ lastArg' = [op |-> "EscapeString", s |-> s, quotes |-> addSurroundingQuotes]
    /\ ret' = EscapeStringWrapper(s, addSurroundingQuotes)
    /\ msg' = NoMessage
    /\ calls' = <<>>
    /\ UNCHANGED <<m_Query, m_Active, MTime, rowsLeft, build>>

\* ------------------------------------------- the typed BindParameter overloads
\* What a call gives its caller: the boolean it returns and the diagnostic
\* it reports through itkErrorMacro.
Outcome(r, m) == [ret |-> r, msg |-> m]

BindParameter_unsigned_char(index, value) == Outcome(FALSE, MsgNoBoundParameters)

BindParameter_signed_char(index, value) == Outcome(FALSE, MsgNoBoundParameters)

BindParameter_unsigned_short(index, value) == Outcome(FALSE, MsgNoBoundParameters)

BindParameter_short(index, value) == Outcome(FALSE, MsgNoBoundParameters)

BindParameter_unsigned_int(index, value) == Outcome(FALSE, MsgNoBoundParameters)

BindParameter_int(index, value) == Outcome(FALSE, MsgNoBoundParameters)

BindParameter_unsigned_long(index, value) == Outcome(FALSE, MsgNoBoundParameters)

\* An overload that accepts the value and binds nothing.
BindParameter_long_accepts(index, value) == [ret |-> TRUE, msg |-> NoMessage]

BindParameter_long(index, value) == Outcome(FALSE, MsgNoBoundParameters)

BindParameter_vtkTypeUInt64(index, value) == Outcome(FALSE, MsgNoBoundParameters)

BindParameter_vtkTypeInt64(index, value) == Outcome(FALSE, MsgNoBoundParameters)

BindParameter_float(index, value) == Outcome(FALSE, MsgNoBoundParameters)

BindParameter_double(index, value) == Outcome(FALSE, MsgNoBoundParameters)

BindParameter_const_char_ptr(index, value) == Outcome(FALSE, MsgNoBoundParameters)

BindParameter_const_char_ptr_length(index, value) == Outcome(FALSE, MsgNoBoundParameters)

BindParameter_string(index, value) == Outcome(FALSE, MsgNoBoundParameters)

BindParameter_const_void_ptr_length(index, value) == Outcome(FALSE, MsgNoBoundParameters)

ClearParameterBindingsResult == Outcome(FALSE, MsgNoBoundParameters)

IntegerOverloads ==
  {"unsigned char", "signed char", "unsigned short", "short", "unsigned int",
   "int", "unsigned long", "long", "vtkTypeUInt64", "vtkTypeInt64"}
RealOverloads == {"float", "double"}
TextOverloads ==
  {"const char*", "const char*, size_t", "std::string", "const void*, size_t"}
Overloads == IntegerOverloads \cup RealOverloads \cup TextOverloads

\* The overload a call BindParameter(index, value) runs, by the type of value.
TypedBind(overload, index, value) ==
  CASE overload = "unsigned char" -> BindParameter_unsigned_char(index, value)
    [] overload = "signed char" -> BindParameter_signed_char(index, value)
    [] overload = "unsigned short" -> BindParameter_unsigned_short(index, value)
    [] overload = "short" -> BindParameter_short(index, value)
    [] overload = "unsigned int" -> BindParameter_unsigned_int(index, value)
    [] overload = "int" -> BindParameter_int(index, value)
    [] overload = "unsigned long" -> BindParameter_unsigned_long(index, value)
    [] overload = "long" -> BindParameter_long(index, value)
    [] overload = "vtkTypeUInt64" -> BindParameter_vtkTypeUInt64(index, value)
    [] overload = "vtkTypeInt64" -> BindParameter_vtkTypeInt64(index, value)
    [] overload = "float" -> BindParameter_float(index, value)
    [] overload = "double" -> BindParameter_double(index, value)
    [] overload = "const char*" -> BindParameter_const_char_ptr(index, value)
    [] overload = "const char*, size_t" -> BindParameter_const_char_ptr_length(index, value)
    [] overload = "std::string" -> BindParameter_string(index, value)
    [] overload = "const void*, size_t" -> BindParameter_const_void_ptr_length(index, value)

\* Sample values of each C++ type; 8- and 16-bit types with their extremes.
ValuesOf(ctype) ==
  CASE ctype = "unsigned char" -> {0, 255}
    [] ctype = "signed char" -> {-128, 127}
    [] ctype = "char" -> {0, 127}
    [] ctype = "unsigned short" -> {0, 65535}
    [] ctype = "short" -> {-32768, 32767}
    [] ctype \in {"unsigned int", "unsigned long", "vtkTypeUInt64",
                  "unsigned long long", "unsigned __int64"} -> {70000}
    [] ctype \in {"int", "long", "vtkTypeInt64", "long long", "__int64"} -> {-70000}
    [] ctype \in RealOverloads -> {-1}
    [] OTHER -> {<<"a", Quote>>}

Indices == 0..MaxIndex

BindParameter ==
  \E overload \in Overloads, index \in Indices :
    \E value \in ValuesOf(overload) :
      LET r == TypedBind(overload, index, value) IN
      /\ lastOp' = "BindParameter"
      /\ lastArg' = [op |-> "BindParameter", overload |-> overload,
                     index |-> index, value |-> value]
      /\ ret' = r.ret
      /\ msg' = r.msg
      /\ calls' = <<>>
      /\ UNCHANGED <<m_Query, m_Active, MTime, rowsLeft, build>>

ClearParameterBindings ==
  /\ lastOp' = "ClearParameterBindings"
  /\ lastArg' = NoArg
  /\ ret' = ClearParameterBindingsResult.ret
  /\ msg' = ClearParameterBindingsResult.msg
  /\ calls' = <<>>
  /\ UNCHANGED <<m_Query, m_Active, MTime, rowsLeft, build>>

\* ------------------------------------- SQLQuery::BindParameter(int, vtkVariant)
\* The types a vtkVariant of this build holds, and the C++ type of each.
VariantTypes(b) ==
  {"VTK_STRING", "VTK_FLOAT", "VTK_DOUBLE", "VTK_CHAR", "VTK_UNSIGNED_CHAR",
   "VTK_SIGNED_CHAR", "VTK_SHORT", "VTK_UNSIGNED_SHORT", "VTK_INT",
   "VTK_UNSIGNED_INT", "VTK_LONG", "VTK_UNSIGNED_LONG",
   "VTK_OBJECT", "VTK_UNICODE_STRING"}
  \cup (IF b = "__INT64" THEN {"VTK___INT64", "VTK_UNSIGNED___INT64"} ELSE {})
  \cup (IF b = "LONG_LONG" THEN {"VTK_LONG_LONG", "VTK_UNSIGNED_LONG_LONG"} ELSE {})

VariantCType(type) ==
  CASE type = "VTK_STRING" -> "vtkStdString"
    [] type = "VTK_FLOAT" -> "float"
    [] type = "VTK_DOUBLE" -> "double"
    [] type = "VTK_CHAR" -> "char"
    [] type = "VTK_UNSIGNED_CHAR" -> "unsigned char"
    [] type = "VTK_SIGNED_CHAR" -> "signed char"
    [] type = "VTK_SHORT" -> "short"
    [] type = "VTK_UNSIGNED_SHORT" -> "unsigned short"
    [] type = "VTK_INT" -> "int"
    [] type = "VTK_UNSIGNED_INT" -> "unsigned int"
    [] type = "VTK_LONG" -> "long"
    [] type = "VTK_UNSIGNED_LONG" -> "unsigned long"
    [] type = "VTK___INT64" -> "__int64"
    [] type = "VTK_UNSIGNED___INT64" -> "unsigned __int64"
    [] type = "VTK_LONG_LONG" -> "long long"
    [] type = "VTK_UNSIGNED_LONG_LONG" -> "unsigned long long"
    [] type = "VTK_OBJECT" -> "vtkObjectBase*"
    [] type = "VTK_UNICODE_STRING" -> "vtkUnicodeString"

\* The valid variants of a type, and the invalid ones: a default-constructed
\* variant and a variant of a null object.
ValidVariants(type) ==
  {[valid |-> TRUE, type |-> type, value |-> v] : v \in ValuesOf(VariantCType(type))}

InvalidVariants ==
  {[valid |-> FALSE, type |-> t, value |-> 0] : t \in {"VTK_VOID", "VTK_OBJECT"}}

\* The dispatch without its test for an invalid variant.
IsValidUntested(data) == TRUE

\* if (!data.IsValid())
IsValid(data) == data.valid

\* The switch with the VTK_UNSIGNED_SHORT line pasted from VTK_SHORT and its
\* conversion function left as it was.
SwitchArmPasted(type, b) ==
  CASE type = "VTK_STRING" -> "ToString"
    [] type = "VTK_FLOAT" -> "ToFloat"
    [] type = "VTK_DOUBLE" -> "ToDouble"
    [] type = "VTK_CHAR" -> "ToChar"
    [] type = "VTK_UNSIGNED_CHAR" -> "ToUnsignedChar"
    [] type = "VTK_SIGNED_CHAR" -> "ToSignedChar"
    [] type = "VTK_SHORT" -> "ToShort"
    [] type = "VTK_UNSIGNED_SHORT" -> "ToShort"
    [] type = "VTK_INT" -> "ToInt"
    [] type = "VTK_UNSIGNED_INT" -> "ToUnsignedInt"
    [] type = "VTK_LONG" -> "ToLong"
    [] type = "VTK_UNSIGNED_LONG" -> "ToUnsignedLong"
    [] type = "VTK___INT64" /\ b = "__INT64" -> "To__Int64"
    [] type = "VTK_UNSIGNED___INT64" /\ b = "__INT64" -> "ToUnsigned__Int64"
    [] type = "VTK_LONG_LONG" /\ b = "LONG_LONG" -> "ToLongLong"
    [] type = "VTK_UNSIGNED_LONG_LONG" /\ b = "LONG_LONG" -> "ToUnsignedLongLong"
    [] type = "VTK_OBJECT" -> "VTK_OBJECT"
    [] OTHER -> "default"

\* The arm of switch (data.GetType()) taken: the conversion function of a
\* VTK_VARIANT_BIND_PARAMETER line, "VTK_OBJECT" or "default".  The 64-bit
\* arms exist only in a build that defines their macro.
SwitchArm(type, b) ==
  CASE type = "VTK_STRING" -> "ToString"
    [] type = "VTK_FLOAT" -> "ToFloat"
    [] type = "VTK_DOUBLE" -> "ToDouble"
    [] type = "VTK_CHAR" -> "ToChar"
    [] type = "VTK_UNSIGNED_CHAR" -> "ToUnsignedChar"
    [] type = "VTK_SIGNED_CHAR" -> "ToSignedChar"
    [] type = "VTK_SHORT" -> "ToShort"
    [] type = "VTK_UNSIGNED_SHORT" -> "ToUnsignedShort"
    [] type = "VTK_INT" -> "ToInt"
    [] type = "VTK_UNSIGNED_INT" -> "ToUnsignedInt"
    [] type = "VTK_LONG" -> "ToLong"
    [] type = "VTK_UNSIGNED_LONG" -> "ToUnsignedLong"
    [] type = "VTK___INT64" /\ b = "__INT64" -> "To__Int64"
    [] type = "VTK_UNSIGNED___INT64" /\ b = "__INT64" -> "ToUnsigned__Int64"
    [] type = "VTK_LONG_LONG" /\ b = "LONG_LONG" -> "ToLongLong"
    [] type = "VTK_UNSIGNED_LONG_LONG" /\ b = "LONG_LONG" -> "ToUnsignedLongLong"
    [] type = "VTK_OBJECT" -> "VTK_OBJECT"
    [] OTHER -> "default"

\* The C++ type each conversion function of vtkVariant returns.
ReturnType(Function) ==
  CASE Function = "ToString" -> "vtkStdString"
    [] Function = "ToFloat" -> "float"
    [] Function = "ToDouble" -> "double"
    [] Function = "ToChar" -> "char"
    [] Function = "ToUnsignedChar" -> "unsigned char"
    [] Function = "ToSignedChar" -> "signed char"
    [] Function = "ToShort" -> "short"
    [] Function = "ToUnsignedShort" -> "unsigned short"
    [] Function = "ToInt" -> "int"
    [] Function = "ToUnsignedInt" -> "unsigned int"
    [] Function = "ToLong" -> "long"
    [] Function = "ToUnsignedLong" -> "unsigned long"
    [] Function = "To__Int64" -> "__int64"
    [] Function = "ToUnsigned__Int64" -> "unsigned __int64"
    [] Function = "ToLongLong" -> "long long"
    [] Function = "ToUnsignedLongLong" -> "unsigned long long"

\* A value cast to a C++ type: 8- and 16-bit integers wrap to their width.
CastTo(ctype, v) ==
  CASE ctype = "unsigned char" -> v % 256
    [] ctype \in {"signed char", "char"} -> ((v + 128) % 256) - 128
    [] ctype = "unsigned short" -> v % 65536
    [] ctype = "short" -> ((v + 32768) % 65536) - 32768
    [] OTHER -> v

\* data.Function()
Convert(Function, data) == CastTo(ReturnType(Function), data.value)

\* The overload that this->BindParameter(index, x) resolves to for x of type
\* ctype among the overloads the header declares: the one of ctype itself;
\* for char, which has none, the int overload by integral promotion; the
\* 64-bit overloads for the type vtkTypeInt64 and vtkTypeUInt64 name.
OverloadFor(ctype) ==
  CASE ctype \in Overloads -> ctype
    [] ctype = "char" -> "int"
    [] ctype \in {"long long", "__int64"} -> "vtkTypeInt64"
    [] ctype \in {"unsigned long long", "unsigned __int64"} -> "vtkTypeUInt64"
    [] ctype = "vtkStdString" -> "std::string"

BindParameterVariant(index, data, b) ==
  IF ~IsValid(data)
  THEN [ret |-> TRUE, msg |-> NoMessage, calls |-> <<>>]
  ELSE LET arm == SwitchArm(data.type, b) IN
       CASE arm = "VTK_OBJECT" ->
              [ret |-> FALSE, msg |-> MsgVariantObject, calls |-> <<>>]
         [] arm = "default" ->
              [ret |-> FALSE, msg |-> MsgVariantUnsupported, calls |-> <<>>]
         [] OTHER ->
              LET value == Convert(arm, data)
                  overload == OverloadFor(ReturnType(arm))
                  r == TypedBind(overload, index, value)
              IN [ret |-> r.ret, msg |-> r.msg,
                  calls |-> <<[overload |-> overload, index |-> index,
                               value |-> value, ret |-> r.ret]>>]

VariantCall(index, data) ==
    LET r == BindParameterVariant(index, data, build) IN
    /\ lastOp' = "BindParameterVariant"
    /\ lastArg' = [op |-> "BindParameterVariant", index |-> index, data |-> data]
    /\ ret' = r.ret
    /\ msg' = r.msg
    /\ calls' = r.calls
    /\ UNCHANGED <<m_Query, m_Active, MTime, rowsLeft, build>>

BindParameterDynamic ==
  \E index \in Indices :
    \/ \E data \in InvalidVariants : VariantCall(index, data)
    \/ \E type \in VariantTypes(build) :
         \E data \in ValidVariants(type) : VariantCall(index, data)

\* ------------------------------------------------------------ specification
Next ==
  \/ SetQuery
  \/ GetQuery
  \/ IsActive
  \/ Execute
  \/ NextRow
  \/ BeginTransaction
  \/ CommitTransaction
  \/ RollbackTransaction
  \/ EscapeStringCall
  \/ BindParameter
  \/ ClearParameterBindings
  \/ BindParameterDynamic

Spec == Init /\ [][Next]_vars

\* ================================================================== claims
Transactions == {"BeginTransaction", "CommitTransaction", "RollbackTransaction"}

\* A query that is active with a text set: a state other than the initial one.
Busy == m_Active /\ m_Query # <<>> /\ MTime > 0

\* C1.  SetQuery(t) returns true and leaves the stored text equal to t; in
\* particular when the stored text and t are both non-empty and differ.
C1_SetQueryReplacesText ==
  [][(/\ lastOp' = "SetQuery"
      /\ m_Query # <<>>
      /\ lastArg'.text # <<>>
      /\ lastArg'.text # m_Query)
     => (ret' = TRUE /\ m_Query' = lastArg'.text)]_vars

\* C2.  SetQuery(t) on an active query with t different from the stored text
\* leaves the query inactive.
C2_SetQueryDeactivates ==
  [][(lastOp' = "SetQuery" /\ m_Active /\ lastArg'.text # m_Query)
     => ~m_Active']_vars

\* C3.  The kinds the claim calls supported, and the overload it gives each.
SupportedKinds(b) == VariantTypes(b) \ {"VTK_OBJECT", "VTK_UNICODE_STRING"}

OwnOverload(type) ==
  CASE type = "VTK_STRING" -> "std::string"
    [] type = "VTK_FLOAT" -> "float"
    [] type = "VTK_DOUBLE" -> "double"
    [] type = "VTK_CHAR" -> "char"
    [] type = "VTK_UNSIGNED_CHAR" -> "unsigned char"
    [] type = "VTK_SIGNED_CHAR" -> "signed char"
    [] type = "VTK_SHORT" -> "short"
    [] type = "VTK_UNSIGNED_SHORT" -> "unsigned short"
    [] type = "VTK_INT" -> "int"
    [] type = "VTK_UNSIGNED_INT" -> "unsigned int"
    [] type = "VTK_LONG" -> "long"
    [] type = "VTK_UNSIGNED_LONG" -> "unsigned long"
    [] type \in {"VTK___INT64", "VTK_LONG_LONG"} -> "vtkTypeInt64"
    [] type \in {"VTK_UNSIGNED___INT64", "VTK_UNSIGNED_LONG_LONG"} -> "vtkTypeUInt64"

\* The one typed call a dispatch of kind type to overload o makes.
DispatchedTo(o) ==
  /\ Len(calls) = 1
  /\ calls[1].overload = o
  /\ calls[1].index = lastArg.index
  /\ calls[1].value = lastArg.data.value
  /\ ret = calls[1].ret

DynamicBindOf(kinds) ==
  /\ lastOp = "BindParameterVariant"
  /\ lastArg.data.valid
  /\ lastArg.data.type \in kinds

\* C3 as claimed: a valid variant of a supported kind T is bound by exactly one
\* call of the typed overload of T itself, with the same index and value, and
\* the result of that call is returned.
C3_DispatchToOwnOverload ==
  DynamicBindOf(SupportedKinds(build)) => DispatchedTo(OwnOverload(lastArg.data.type))

\* C3 amended: a valid variant of a supported kind T is bound by exactly one
\* typed call with the same index and value, whose result is returned: the
\* overload of T itself, and for plain char, which has no overload, that of int.
C3_DispatchExact ==
  DynamicBindOf(SupportedKinds(build)) =>
    DispatchedTo(IF lastArg.data.type = "VTK_CHAR" THEN "int"
                 ELSE OwnOverload(lastArg.data.type))

C3_Witness ==
  /\ DynamicBindOf({"VTK_CHAR"})
  /\ lastArg.data.value = 127
  /\ lastArg.index = MaxIndex
  /\ Len(calls) = 1

\* C4.  Binding an invalid variant returns true, invokes no typed overload,
\* reports nothing and changes nothing of the query.
C4_NullBindIsNoOp ==
  [][(lastOp' = "BindParameterVariant" /\ ~lastArg'.data.valid)
     => (ret' = TRUE /\ calls' = <<>> /\ msg' = NoMessage /\ UNCHANGED object)]_vars

C4_Witness ==
  /\ lastOp = "BindParameterVariant"
  /\ ~lastArg.data.valid
  /\ lastArg.data.type = "VTK_OBJECT"
  /\ Busy

\* C5.  Binding a valid variant of a kind without a typed overload returns
\* false with a variant-kind diagnostic and invokes no typed overload; a typed
\* bind of the base class never gives that outcome.
VariantKindOutcomes ==
  {Outcome(FALSE, MsgVariantObject), Outcome(FALSE, MsgVariantUnsupported)}

C5_UnsupportedKind ==
  /\ DynamicBindOf({"VTK_OBJECT", "VTK_UNICODE_STRING"}) =>
       (Outcome(ret, msg) \in VariantKindOutcomes /\ calls = <<>>)
  /\ lastOp \in {"BindParameter", "ClearParameterBindings"} =>
       Outcome(ret, msg) \notin VariantKindOutcomes

C5_Witness == DynamicBindOf({"VTK_UNICODE_STRING"}) /\ ret = FALSE /\ Busy

\* C6.  Every typed overload and ClearParameterBindings of the base class
\* returns false with the no-bound-parameters diagnostic and changes nothing.
C6_TypedBindUnsupported ==
  [][lastOp' \in {"BindParameter", "ClearParameterBindings"}
     => (/\ ret' = FALSE
         /\ msg' = MsgNoBoundParameters
         /\ UNCHANGED object)]_vars

C6_Witness ==
  /\ lastOp = "BindParameter"
  /\ lastArg.overload = "long"
  /\ ret = FALSE
  /\ Busy

\* C7.  The default transaction methods return true in every state and
\* change nothing.
C7_TransactionsNoOp ==
  [][lastOp' \in Transactions => (ret' = TRUE /\ UNCHANGED object)]_vars

C7_Witness == lastOp = "CommitTransaction" /\ ret = TRUE /\ Busy

\* C8.  EscapeString(s, q) is s with every single quote doubled and every
\* other character copied in order, inside one pair of single quotes exactly
\* when q; the three examples; and the call changes nothing of the query.
QuoteCount(s, n) == Cardinality({i \in 1..n : s[i] = Quote})

IsEscaped(s, q, d) ==
  LET off == IF q THEN 1 ELSE 0
      pos(i) == off + i + QuoteCount(s, i - 1)
  IN /\ Len(d) = Len(s) + QuoteCount(s, Len(s)) + 2 * off
     /\ q => (d[1] = Quote /\ d[Len(d)] = Quote)
     /\ \A i \in 1..Len(s) :
          /\ d[pos(i)] = s[i]
          /\ s[i] = Quote => d[pos(i) + 1] = Quote

EscapeExample(s, q, d) ==
  /\ (s = OBrien /\ q) => d = <<Quote, "O", Quote, Quote, "B", "r", "i", "e", "n", Quote>>
  /\ (s = Abc /\ ~q) => d = Abc
  /\ (s = <<>> /\ q) => d = <<Quote, Quote>>

C8_EscapeDoublesQuotes ==
  [][lastOp' = "EscapeString"
     => (/\ IsEscaped(lastArg'.s, lastArg'.quotes, ret')
         /\ EscapeExample(lastArg'.s, lastArg'.quotes, ret')
         /\ UNCHANGED object)]_vars

C8_Witness ==
  /\ lastOp = "EscapeString"
  /\ lastArg.s = OBrien
  /\ lastArg.quotes
  /\ Len(ret) = 10
  /\ Busy

\* C9.  SetQuery(t) with t equal to the stored text returns true and leaves
\* the text, the active flag and the modification time unchanged.
C9_SameTextIsNoOp ==
  [][(lastOp' = "SetQuery" /\ lastArg'.text = m_Query)
     => (ret' = TRUE /\ m_Query' = m_Query /\ m_Active' = m_Active /\ MTime' = MTime)]_vars

\* C10.  A new query is inactive with empty text, and only a successful
\* Execute makes a query active.
C10_ActiveOnlyAfterExecute ==
  /\ ~m_Active /\ m_Query = <<>>
  /\ [][(m_Active' /\ ~m_Active) => (lastOp' = "Execute" /\ ret' = TRUE)]_vars

C10_Witness ==
  /\ lastOp = "BindParameterVariant"
  /\ ~m_Active
  /\ m_Query # <<>>
  /\ MTime = MaxMTime

====
